---- MODULE Spec2Model ----
(***************************************************************************)
(* Simulation engine of the workflow designer (hook useSimulation).       *)
(* The graph (nodes, edges) is the one the hook closes over; the six      *)
(* simulation-state sets and the pending window.setTimeout callbacks are  *)
(* the state.  Every handler of the hook is one action; a timer callback  *)
(* is one action too (single-threaded event loop).                        *)
(* Further parts model getLinkedNodes step by step, cleanupWorkflow, and  *)
(* the WorkflowCanvas: load at mount, import, clear, the edits of the     *)
(* graph, the node-id counter and the dragging of a Policy.               *)
(***************************************************************************)
EXTENDS Bags, FiniteSets, Integers, Sequences, TLC

\* Most timer callbacks that may be pending at once (the code has no limit).
MaxTimers == 2

\* Longest edge list getLinkedNodes is run on by itself.
MaxEdges == 3

VARIABLES
    nodes,                 \* Node[] the hook was called with
    edges,                 \* Edge[] the hook was called with
    executedNodes,
    activeNodes,
    executedEdges,
    animatingEdges,
    waitingForDecision,
    triggeredOutputNodes,
    simulationTimeouts,    \* bag of the timer callbacks not yet fired nor cleared
    lastOp,                \* history: the handler or callback that ran last
    run,                   \* history: the run of one Trigger since an empty simulation
    undecided,             \* history: Policies waiting with no decision call since
    bfsSource,             \* getLinkedNodes: its argument sourceNodeId
    bfsQueue,              \* getLinkedNodes: its local queue
    bfsVisited,            \* getLinkedNodes: its local visited
    bfsLinked,             \* getLinkedNodes: its local linkedNodes, the value returned
    expanded,              \* history: the ids whose outgoing edges were followed, in order
    nodeId,                \* WorkflowCanvas: the module-level counter behind getNodeId
    clipboard,             \* WorkflowCanvas: clipboard.current, the nodes copied last
    notifications,         \* WorkflowCanvas: the alert() dialogs its last handler raised
    stale,                 \* pending timer callbacks close over a graph that was replaced
    position,              \* WorkflowCanvas: node.position by node id, while a drag is followed
    policyDragStart,       \* WorkflowCanvas: policyDragStart.current, pairs <<id, position>>
    rendered               \* node.position by node id as handleNodesChange closes over it

simVars == <<executedNodes, activeNodes, executedEdges, animatingEdges,
             waitingForDecision, triggeredOutputNodes, simulationTimeouts>>
bfsVars == <<bfsSource, bfsQueue, bfsVisited, bfsLinked, expanded>>
dragVars == <<position, policyDragStart, rendered>>
canvasVars == <<nodeId, clipboard, notifications, stale, position, policyDragStart, rendered>>
vars == <<nodes, edges, executedNodes, activeNodes, executedEdges, animatingEdges,
          waitingForDecision, triggeredOutputNodes, simulationTimeouts, lastOp, run,
          undecided, bfsSource, bfsQueue, bfsVisited, bfsLinked, expanded,
          nodeId, clipboard, notifications, stale, position, policyDragStart, rendered>>

----------------------------------------------------------------------------
\* Graphs

Node(id, type) == [id |-> id, type |-> type, parentPolicyId |-> "", outputId |-> ""]

PolicyOutputNode(id, parent, out) ==
    [id |-> id, type |-> "policyOutput", parentPolicyId |-> parent, outputId |-> out]

Edge(id, s, t) == [id |-> id, source |-> s, target |-> t]

\* Policy P with outputs O1 -> X and O2 -> Y; X loops back to P.
LoopGraph ==
    [nodes |-> << Node("P", "policy"),
                  PolicyOutputNode("O1", "P", "yes"), PolicyOutputNode("O2", "P", "no"),
                  Node("X", "step"), Node("Y", "step") >>,
     edges |-> << Edge("O1-X", "O1", "X"), Edge("O2-Y", "O2", "Y"),
                  Edge("X-P", "X", "P") >>]

\* Step A -> Trigger B -> Step C -> A: a Trigger on a cycle through itself.
ChainGraph ==
    [nodes |-> << Node("A", "step"), Node("B", "trigger"), Node("C", "step") >>,
     edges |-> << Edge("A-B", "A", "B"), Edge("B-C", "B", "C"), Edge("C-A", "C", "A") >>]

\* Two paths of different length from T to the Policy P (T -> P, T -> A -> P).
DiamondGraph ==
    [nodes |-> << Node("T", "trigger"), Node("A", "step"), Node("P", "policy"),
                  PolicyOutputNode("O1", "P", "yes"), Node("X", "step") >>,
     edges |-> << Edge("T-P", "T", "P"), Edge("T-A", "T", "A"),
                  Edge("A-P", "A", "P"), Edge("O1-X", "O1", "X") >>]

\* An edge dropped onto a PolicyOutput node (onConnectEnd accepts any node).
IntoOutputGraph ==
    [nodes |-> << Node("T", "trigger"), Node("P", "policy"),
                  PolicyOutputNode("O1", "P", "yes"), Node("X", "step") >>,
     edges |-> << Edge("T-P", "T", "P"), Edge("T-O1", "T", "O1"),
                  Edge("O1-X", "O1", "X") >>]

\* DiamondGraph after its Policy P was deleted: the cascade of handleNodesChange
\* removes the PolicyOutput node O1 from the nodes only, its edge O1 -> X stays.
OrphanGraph ==
    [nodes |-> << Node("T", "trigger"), Node("A", "step"), Node("X", "step") >>,
     edges |-> << Edge("T-A", "T", "A"), Edge("O1-X", "O1", "X") >>]

\* A Trigger in front of a cycle of two steps (A -> B -> A).
CycleGraph ==
    [nodes |-> << Node("T", "trigger"), Node("A", "step"), Node("B", "step") >>,
     edges |-> << Edge("T-A", "T", "A"), Edge("A-B", "A", "B"), Edge("B-A", "B", "A") >>]

\* An edge from a node to itself next to an edge to another node (onConnect refuses
\* only a second edge between the same source and target).
SelfLoopGraph ==
    [nodes |-> << Node("A", "step"), Node("B", "step") >>,
     edges |-> << Edge("A-A", "A", "A"), Edge("A-B", "A", "B") >>]

Graphs == {LoopGraph, ChainGraph, DiamondGraph, IntoOutputGraph, OrphanGraph, CycleGraph,
           SelfLoopGraph}

\* Output ids a decision may be asked for; "no" is bound to no node where the Policy
\* has the one output "yes".
OutputIds == {"yes", "no"}

Range(s) == {s[i] : i \in DOMAIN s}

NodeIds == {n.id : n \in Range(nodes)}

\* nodes.find((n) => n.id === id)?.type
nodeType(id) ==
    LET hits == SelectSeq(nodes, LAMBDA n : n.id = id)
    IN  IF hits = <<>> THEN "undefined" ELSE Head(hits).type

----------------------------------------------------------------------------
\* Simulation state as one value

Sim == [executedNodes |-> executedNodes, activeNodes |-> activeNodes,
        executedEdges |-> executedEdges, animatingEdges |-> animatingEdges,
        waitingForDecision |-> waitingForDecision,
        triggeredOutputNodes |-> triggeredOutputNodes,
        simulationTimeouts |-> simulationTimeouts]

EmptySim == [executedNodes |-> {}, activeNodes |-> {}, executedEdges |-> {},
             animatingEdges |-> {}, waitingForDecision |-> {},
             triggeredOutputNodes |-> {}, simulationTimeouts |-> EmptyBag]

SetSim(S) ==
    /\ executedNodes' = S.executedNodes
    /\ activeNodes' = S.activeNodes
    /\ executedEdges' = S.executedEdges
    /\ animatingEdges' = S.animatingEdges
    /\ waitingForDecision' = S.waitingForDecision
    /\ triggeredOutputNodes' = S.triggeredOutputNodes
    /\ simulationTimeouts' = S.simulationTimeouts

----------------------------------------------------------------------------
\* getLinkedNodes: breadth-first search through the edges

RECURSIVE bfs(_, _, _)
bfs(queue, visited, linkedNodes) ==
    IF queue = <<>> THEN linkedNodes
    ELSE LET currentId == Head(queue)
             rest == Tail(queue)
         IN  IF currentId \in visited THEN bfs(rest, visited, linkedNodes)
             ELSE LET seen == visited \cup {currentId}
                      outgoingEdges == SelectSeq(edges, LAMBDA e : e.source = currentId)
                      fresh == SelectSeq(outgoingEdges, LAMBDA e : e.target \notin seen)
                      targets == [i \in DOMAIN fresh |-> fresh[i].target]
                  IN  bfs(rest \o targets, seen, linkedNodes \cup Range(targets))

getLinkedNodes(sourceNodeId) == bfs(<<sourceNodeId>>, {}, {})

----------------------------------------------------------------------------
\* Timers

\* Slip: the target's type is not looked at, every target is executed.
Timeout_noTriggerCheck(edge) == [edge |-> edge, isTargetTrigger |-> FALSE]

\* The closure handed to window.setTimeout: it captures the edge and isTargetTrigger.
Timeout(edge) == [edge |-> edge, isTargetTrigger |-> nodeType(edge.target) = "trigger"]

RECURSIVE pushTimeouts(_, _)
pushTimeouts(timeouts, es) ==
    IF es = <<>> THEN timeouts
    ELSE pushTimeouts(timeouts (+) SetToBag({Timeout(Head(es))}), Tail(es))

\* Slip: the handles are forgotten without clearTimeout, the callbacks stay scheduled.
clearTimeouts_forgetOnly(timeouts) == timeouts

\* simulationTimeouts.current.forEach(clearTimeout); simulationTimeouts.current = []
clearTimeouts(timeouts) == EmptyBag

----------------------------------------------------------------------------
\* Handlers, as functions of the simulation state

\* Slip: the linked nodes and edges are reset but the running timers are not cancelled.
resetLinkedNodes_keepTimers(S, triggerNodeId) ==
    LET linkedNodes == getLinkedNodes(triggerNodeId)
        linkedEdgeIds == {e.id : e \in {x \in Range(edges) :
                              x.source \in linkedNodes \/ x.source = triggerNodeId}}
    IN  [S EXCEPT !.executedNodes = @ \ linkedNodes,
                  !.activeNodes = @ \ linkedNodes,
                  !.waitingForDecision = @ \ linkedNodes,
                  !.executedEdges = @ \ linkedEdgeIds,
                  !.animatingEdges = @ \ linkedEdgeIds]

resetLinkedNodes(S, triggerNodeId) ==
    LET linkedNodes == getLinkedNodes(triggerNodeId)
        linkedEdgeIds == {e.id : e \in {x \in Range(edges) :
                              x.source \in linkedNodes \/ x.source = triggerNodeId}}
    IN  [S EXCEPT !.simulationTimeouts = clearTimeouts(@),
                  !.executedNodes = @ \ linkedNodes,
                  !.activeNodes = @ \ linkedNodes,
                  !.waitingForDecision = @ \ linkedNodes,
                  !.executedEdges = @ \ linkedEdgeIds,
                  !.animatingEdges = @ \ linkedEdgeIds]

\* Slip: the node is marked executed before its type is looked at.
handleExecuteNode_markFirst(S, nodeIdToExecute) ==
    LET marked == [S EXCEPT !.executedNodes = @ \cup {nodeIdToExecute},
                            !.activeNodes = @ \ {nodeIdToExecute}]
        outgoingEdges == SelectSeq(edges, LAMBDA e : e.source = nodeIdToExecute)
    IN  IF nodeType(nodeIdToExecute) = "policy"
        THEN [marked EXCEPT !.waitingForDecision = @ \cup {nodeIdToExecute}]
        ELSE [marked EXCEPT !.animatingEdges = @ \cup {e.id : e \in Range(outgoingEdges)},
                            !.simulationTimeouts = pushTimeouts(@, outgoingEdges)]

\* Slip: the early return of the Policy branch is missing.
handleExecuteNode_noReturn(S, nodeIdToExecute) ==
    LET waiting == IF nodeType(nodeIdToExecute) = "policy"
                   THEN [S EXCEPT !.waitingForDecision = @ \cup {nodeIdToExecute}]
                   ELSE S
        outgoingEdges == SelectSeq(edges, LAMBDA e : e.source = nodeIdToExecute)
    IN  [waiting EXCEPT !.executedNodes = @ \cup {nodeIdToExecute},
                        !.activeNodes = @ \ {nodeIdToExecute},
                        !.animatingEdges = @ \cup {e.id : e \in Range(outgoingEdges)},
                        !.simulationTimeouts = pushTimeouts(@, outgoingEdges)]

\* Slip: a single timer is scheduled, for the first outgoing edge, whatever their number.
handleExecuteNode_oneTimer(S, nodeIdToExecute) ==
    IF nodeType(nodeIdToExecute) = "policy"
    THEN [S EXCEPT !.waitingForDecision = @ \cup {nodeIdToExecute}]
    ELSE LET outgoingEdges == SelectSeq(edges, LAMBDA e : e.source = nodeIdToExecute)
         IN  [S EXCEPT !.executedNodes = @ \cup {nodeIdToExecute},
                       !.activeNodes = @ \ {nodeIdToExecute},
                       !.animatingEdges = @ \cup {e.id : e \in Range(outgoingEdges)},
                       !.simulationTimeouts =
                           IF outgoingEdges = <<>> THEN @
                           ELSE pushTimeouts(@, <<Head(outgoingEdges)>>)]

handleExecuteNode(S, nodeIdToExecute) ==
    IF nodeType(nodeIdToExecute) = "policy"
    THEN [S EXCEPT !.waitingForDecision = @ \cup {nodeIdToExecute}]
    ELSE LET outgoingEdges == SelectSeq(edges, LAMBDA e : e.source = nodeIdToExecute)
         IN  [S EXCEPT !.executedNodes = @ \cup {nodeIdToExecute},
                       !.activeNodes = @ \ {nodeIdToExecute},
                       !.animatingEdges = @ \cup {e.id : e \in Range(outgoingEdges)},
                       !.simulationTimeouts = pushTimeouts(@, outgoingEdges)]

\* Slip: the callback arms the target for manual execution instead of executing it.
timeoutCallback_armTarget(S, t) ==
    LET moved == [S EXCEPT !.animatingEdges = @ \ {t.edge.id},
                           !.executedEdges = @ \cup {t.edge.id}]
    IN  IF ~t.isTargetTrigger THEN [moved EXCEPT !.activeNodes = @ \cup {t.edge.target}]
        ELSE moved

\* The callback of a timer: end of the animation of its edge.
timeoutCallback(S, t) ==
    LET moved == [S EXCEPT !.animatingEdges = @ \ {t.edge.id},
                           !.executedEdges = @ \cup {t.edge.id}]
    IN  IF ~t.isTargetTrigger THEN handleExecuteNode(moved, t.edge.target) ELSE moved

handleTrigger(S, triggerId) ==
    handleExecuteNode(resetLinkedNodes(S, triggerId), triggerId)

\* Slip: the output node is recorded and executed, the reset of what hangs behind it
\* is missing.
handleTriggerFromOutput_noReset(S, outputNodeId) ==
    handleExecuteNode([S EXCEPT !.triggeredOutputNodes = @ \cup {outputNodeId}], outputNodeId)

handleTriggerFromOutput(S, outputNodeId) ==
    LET cleared == resetLinkedNodes(S, outputNodeId)
        marked == [cleared EXCEPT !.triggeredOutputNodes = @ \cup {outputNodeId}]
    IN  handleExecuteNode(marked, outputNodeId)

\* Slip: setWaitingForDecision(new Set()) is missing.
handleResetSimulation_keepWaiting(S) ==
    [executedNodes |-> {}, activeNodes |-> {}, executedEdges |-> {},
     animatingEdges |-> {}, waitingForDecision |-> S.waitingForDecision,
     triggeredOutputNodes |-> {}, simulationTimeouts |-> clearTimeouts(S.simulationTimeouts)]

\* Slip: setExecutedEdges(new Set()) and setTriggeredOutputNodes(new Set()) are missing.
handleResetSimulation_keepEdges(S) ==
    [executedNodes |-> {}, activeNodes |-> {}, executedEdges |-> S.executedEdges,
     animatingEdges |-> {}, waitingForDecision |-> {},
     triggeredOutputNodes |-> S.triggeredOutputNodes,
     simulationTimeouts |-> clearTimeouts(S.simulationTimeouts)]

handleResetSimulation(S) ==
    [executedNodes |-> {}, activeNodes |-> {}, executedEdges |-> {},
     animatingEdges |-> {}, waitingForDecision |-> {},
     triggeredOutputNodes |-> {}, simulationTimeouts |-> clearTimeouts(S.simulationTimeouts)]

\* nodes.filter(policyOutput nodes whose parentPolicyId is parentPolicyId)
allOutputNodes(parentPolicyId) ==
    SelectSeq(nodes, LAMBDA n : n.type = "policyOutput" /\ n.parentPolicyId = parentPolicyId)

\* nodes.find(policyOutput node bound to (parentPolicyId, outputId)), <<>> when absent
findOutputNode(parentPolicyId, outputId) ==
    SelectSeq(nodes, LAMBDA n : /\ n.type = "policyOutput"
                                /\ n.parentPolicyId = parentPolicyId
                                /\ n.outputId = outputId)

\* Slip: only the first output's branch is collected.
allLinkedNodes_firstOutput(parentPolicyId) ==
    IF allOutputNodes(parentPolicyId) = <<>> THEN {}
    ELSE getLinkedNodes(Head(allOutputNodes(parentPolicyId)).id)

allLinkedNodes(parentPolicyId) ==
    UNION {getLinkedNodes(po.id) : po \in Range(allOutputNodes(parentPolicyId))}

allLinkedEdgeIds(parentPolicyId) ==
    UNION { LET linkedNodes == getLinkedNodes(po.id)
            IN  {e.id : e \in {x \in Range(edges) : \/ x.source \in linkedNodes
                                                     \/ x.target \in linkedNodes
                                                     \/ x.source = po.id}}
            : po \in Range(allOutputNodes(parentPolicyId)) }

\* handlePolicyDecision, first half: reset what hangs behind ALL the outputs
policyReset(S, parentPolicyId) ==
    LET linked == allLinkedNodes(parentPolicyId)
        linkedEdges == allLinkedEdgeIds(parentPolicyId)
    IN  [S EXCEPT !.executedNodes = @ \ linked,
                  !.activeNodes = @ \ linked,
                  !.waitingForDecision = @ \ linked,
                  !.executedEdges = @ \ linkedEdges,
                  !.animatingEdges = @ \ linkedEdges]

\* Slip: the edge is looked up by its target instead of its source.
chosenEdge_byTarget(outputNode) == SelectSeq(edges, LAMBDA e : e.target = outputNode.id)

\* edges.find((e) => e.source === outputNode.id), <<>> when absent
chosenEdge(outputNode) == SelectSeq(edges, LAMBDA e : e.source = outputNode.id)

\* Slip: the edges of every output of the Policy are followed, not the chosen one.
policyPropagate_everyOutput(S, parentPolicyId, outputNode) ==
    LET decided == [S EXCEPT !.waitingForDecision = @ \ {parentPolicyId},
                             !.executedNodes = @ \cup {parentPolicyId}]
        outs == {n.id : n \in Range(allOutputNodes(parentPolicyId))}
        followed == SelectSeq(edges, LAMBDA e : e.source \in outs)
    IN  [decided EXCEPT !.animatingEdges = @ \cup {e.id : e \in Range(followed)},
                        !.simulationTimeouts = pushTimeouts(@, followed)]

\* handlePolicyDecision, second half: mark the Policy and follow the chosen edge
policyPropagate(S, parentPolicyId, outputNode) ==
    LET decided == [S EXCEPT !.waitingForDecision = @ \ {parentPolicyId},
                             !.executedNodes = @ \cup {parentPolicyId}]
        chosen == chosenEdge(outputNode)
    IN  IF chosen = <<>> THEN decided
        ELSE [decided EXCEPT !.animatingEdges = @ \cup {Head(chosen).id},
                             !.simulationTimeouts = pushTimeouts(@, <<Head(chosen)>>)]

\* Slip: the `if (!outputNode) return` guard comes after the Policy was marked.
handlePolicyDecision_lateGuard(S, parentPolicyId, outputId) ==
    LET found == findOutputNode(parentPolicyId, outputId)
    IN  IF found = <<>>
        THEN [S EXCEPT !.waitingForDecision = @ \ {parentPolicyId},
                       !.executedNodes = @ \cup {parentPolicyId}]
        ELSE policyPropagate(policyReset(S, parentPolicyId), parentPolicyId, Head(found))

handlePolicyDecision(S, parentPolicyId, outputId) ==
    LET found == findOutputNode(parentPolicyId, outputId)
    IN  IF found = <<>> THEN S
        ELSE policyPropagate(policyReset(S, parentPolicyId), parentPolicyId, Head(found))

isSimulationActive ==
    \/ executedNodes # {}
    \/ activeNodes # {}
    \/ animatingEdges # {}
    \/ waitingForDecision # {}

----------------------------------------------------------------------------
\* undone: how much earlier state the handler undid: the pending timers it cancelled
\* (trigger, triggerFromOutput, resetSimulation), or the executed nodes it reset that
\* do not lie behind the chosen output (policyDecision)
Op(op, id, out, undone) == [op |-> op, id |-> id, out |-> out, undone |-> undone]

NoRun == [root |-> "", stage |-> "none"]

\* The canvas as it is mounted: let nodeId = 0, an empty clipboard, no dialog raised,
\* no timer callback pending, no drag followed.
canvasMounted ==
    /\ nodeId = 0
    /\ clipboard = <<>>
    /\ notifications = <<>>
    /\ stale = FALSE
    /\ position = <<>>
    /\ policyDragStart = {}
    /\ rendered = <<>>

Init ==
    /\ \E g \in Graphs : nodes = g.nodes /\ edges = g.edges
    /\ executedNodes = {}
    /\ activeNodes = {}
    /\ executedEdges = {}
    /\ animatingEdges = {}
    /\ waitingForDecision = {}
    /\ triggeredOutputNodes = {}
    /\ simulationTimeouts = EmptyBag
    /\ lastOp = Op("init", "", "", 0)
    /\ run = NoRun
    /\ undecided = {}
    /\ bfsSource = ""
    /\ bfsQueue = <<>>
    /\ bfsVisited = {}
    /\ bfsLinked = {}
    /\ expanded = <<>>
    /\ canvasMounted

\* Policies that entered waitingForDecision and for which neither a decision nor a
\* triggerFromOutput on one of their outputs (called) was made since.
undecidedAfter(S, called) ==
    ((undecided \ called) \cap S.waitingForDecision)
        \cup (S.waitingForDecision \ waitingForDecision)

Fits(S) == BagCardinality(S.simulationTimeouts) <= MaxTimers

ExecuteNode(id) ==
    LET S == handleExecuteNode(Sim, id)
    IN  /\ Fits(S)
        /\ SetSim(S)
        /\ lastOp' = Op("executeNode", id, "", 0)
        /\ run' = NoRun
        /\ undecided' = undecidedAfter(S, {})
        /\ UNCHANGED <<nodes, edges, bfsVars, canvasVars>>

ResetSimulation ==
    /\ SetSim(handleResetSimulation(Sim))
    /\ lastOp' = Op("resetSimulation", "", "", BagCardinality(simulationTimeouts))
    /\ run' = NoRun
    /\ undecided' = {}
    /\ stale' = FALSE
    /\ UNCHANGED <<nodes, edges, bfsVars, nodeId, clipboard, notifications, dragVars>>

\* The run of a Trigger: started by trigger(T) on an empty simulation, carried on
\* by timer callbacks, decisions and further trigger(T) calls, ended by anything else.
runAfterTrigger(id) ==
    IF nodeType(id) # "trigger" THEN NoRun
    ELSE IF Sim = EmptySim THEN [root |-> id, stage |-> "once"]
    ELSE IF run.root # id THEN NoRun
    ELSE IF run.stage \in {"once", "again"} THEN [root |-> id, stage |-> "again"]
    ELSE [root |-> id, stage |-> "unwound"]

runAfterProgress == IF run.stage = "none" THEN NoRun ELSE [run EXCEPT !.stage = "moved"]

Trigger(id) ==
    LET S == handleTrigger(Sim, id)
    IN  /\ Fits(S)
        /\ SetSim(S)
        /\ lastOp' = Op("trigger", id, "", BagCardinality(simulationTimeouts))
        /\ run' = runAfterTrigger(id)
        /\ undecided' = undecidedAfter(S, {})
        /\ stale' = FALSE
        /\ UNCHANGED <<nodes, edges, bfsVars, nodeId, clipboard, notifications, dragVars>>

TriggerFromOutput(id) ==
    LET S == handleTriggerFromOutput(Sim, id)
    IN  /\ Fits(S)
        /\ SetSim(S)
        /\ lastOp' = Op("triggerFromOutput", id, "", BagCardinality(simulationTimeouts))
        /\ run' = NoRun
        /\ undecided' = undecidedAfter(S, {n.parentPolicyId : n \in {x \in Range(nodes) : x.id = id}})
        /\ stale' = FALSE
        /\ UNCHANGED <<nodes, edges, bfsVars, nodeId, clipboard, notifications, dragVars>>

\* Executed nodes the decision resets that do not lie behind the chosen output.
otherBranchExecuted(parentPolicyId, outputId) ==
    LET found == findOutputNode(parentPolicyId, outputId)
    IN  IF found = <<>> THEN 0
        ELSE Cardinality((executedNodes \cap allLinkedNodes(parentPolicyId))
                             \ getLinkedNodes(Head(found).id))

PolicyDecision(parentPolicyId, outputId) ==
    LET S == handlePolicyDecision(Sim, parentPolicyId, outputId)
    IN  /\ Fits(S)
        /\ SetSim(S)
        /\ lastOp' = Op("policyDecision", parentPolicyId, outputId,
                        otherBranchExecuted(parentPolicyId, outputId))
        /\ run' = IF findOutputNode(parentPolicyId, outputId) = <<>> THEN run
                  ELSE runAfterProgress
        /\ undecided' = undecidedAfter(S, {parentPolicyId})
        /\ UNCHANGED <<nodes, edges, bfsVars, canvasVars>>

\* One pending timer fires: it leaves the pending bag and its callback runs.
FireTimeout(t) ==
    LET S == timeoutCallback([Sim EXCEPT !.simulationTimeouts = @ (-) SetToBag({t})], t)
    IN  /\ BagIn(t, simulationTimeouts)
        /\ Fits(S)
        /\ SetSim(S)
        /\ lastOp' = Op("timeout", t.edge.id, "", 0)
        /\ run' = runAfterProgress
        /\ undecided' = undecidedAfter(S, {})
        /\ UNCHANGED <<nodes, edges, bfsVars, canvasVars>>

\* Ids the handlers are called with
TriggerIds == {n.id : n \in {x \in Range(nodes) : x.type = "trigger"}}
PolicyIds == {n.id : n \in {x \in Range(nodes) : x.type = "policy"}}
OutputNodeIds == {n.id : n \in {x \in Range(nodes) : x.type = "policyOutput"}}
MissingId == "gone"
\* Ids of deleted nodes that an edge left behind still names.
DeletedIds == ({e.source : e \in Range(edges)} \cup {e.target : e \in Range(edges)}) \ NodeIds
DecisionArgs == (PolicyIds \X OutputIds) \cup {<<MissingId, "yes">>}

Next ==
    \/ \E id \in NodeIds \cup DeletedIds : ExecuteNode(id)
    \/ \E id \in TriggerIds \cup DeletedIds : Trigger(id)
    \/ \E id \in OutputNodeIds : TriggerFromOutput(id)
    \/ \E a \in DecisionArgs : PolicyDecision(a[1], a[2])
    \/ \E t \in BagToSet(simulationTimeouts) : FireTimeout(t)
    \/ ResetSimulation

Spec == Init /\ [][Next]_vars

----------------------------------------------------------------------------
\* getLinkedNodes by itself, one iteration of its while loop per step

Universe == {"a", "b", "c"}

\* The node list, whole or after node c was deleted.
NodeLists == { << Node("a", "step"), Node("b", "step"), Node("c", "step") >>,
               << Node("a", "step"), Node("b", "step") >> }

EdgeNames == <<"e1", "e2", "e3", "e4">>

\* Every list of at most MaxEdges edges between ids of Universe: self-loops, parallel
\* edges and edges left behind by a deleted node included.
EdgeLists ==
    UNION { { [i \in 1..n |-> Edge(EdgeNames[i], f[i][1], f[i][2])] :
                f \in [1..n -> Universe \X Universe] } : n \in 0..MaxEdges }

InitLinked ==
    /\ nodes \in NodeLists
    /\ edges \in EdgeLists
    /\ bfsSource \in Universe
    /\ bfsQueue = <<bfsSource>>
    /\ bfsVisited = {}
    /\ bfsLinked = {}
    /\ expanded = <<>>
    /\ executedNodes = {}
    /\ activeNodes = {}
    /\ executedEdges = {}
    /\ animatingEdges = {}
    /\ waitingForDecision = {}
    /\ triggeredOutputNodes = {}
    /\ simulationTimeouts = EmptyBag
    /\ lastOp = Op("init", "", "", 0)
    /\ run = NoRun
    /\ undecided = {}
    /\ canvasMounted

\* Slip: the id met again is looked at but not taken off the queue.
SkipVisited_stay ==
    /\ bfsQueue # <<>>
    /\ Head(bfsQueue) \in bfsVisited
    /\ UNCHANGED vars

\* if (visited.has(currentId)) continue
SkipVisited ==
    /\ bfsQueue # <<>>
    /\ Head(bfsQueue) \in bfsVisited
    /\ bfsQueue' = Tail(bfsQueue)
    /\ UNCHANGED <<nodes, edges, simVars, lastOp, run, undecided,
                   bfsSource, bfsVisited, bfsLinked, expanded, canvasVars>>

\* Slip: the `if (!visited.has(edge.target))` test is missing, every target is linked.
Expand_everyTarget ==
    /\ bfsQueue # <<>>
    /\ Head(bfsQueue) \notin bfsVisited
    /\ LET currentId == Head(bfsQueue)
           outgoingEdges == SelectSeq(edges, LAMBDA e : e.source = currentId)
           targets == [i \in DOMAIN outgoingEdges |-> outgoingEdges[i].target]
       IN  /\ bfsVisited' = bfsVisited \cup {currentId}
           /\ bfsLinked' = bfsLinked \cup Range(targets)
           /\ bfsQueue' = Tail(bfsQueue) \o targets
           /\ expanded' = Append(expanded, currentId)
    /\ UNCHANGED <<nodes, edges, simVars, lastOp, run, undecided, bfsSource, canvasVars>>

\* visited.add(currentId), then the for loop over the outgoing edges
Expand ==
    /\ bfsQueue # <<>>
    /\ Head(bfsQueue) \notin bfsVisited
    /\ LET currentId == Head(bfsQueue)
           outgoingEdges == SelectSeq(edges, LAMBDA e : e.source = currentId)
           fresh == SelectSeq(outgoingEdges,
                              LAMBDA e : e.target \notin bfsVisited \cup {currentId})
           targets == [i \in DOMAIN fresh |-> fresh[i].target]
       IN  /\ bfsVisited' = bfsVisited \cup {currentId}
           /\ bfsLinked' = bfsLinked \cup Range(targets)
           /\ bfsQueue' = Tail(bfsQueue) \o targets
           /\ expanded' = Append(expanded, currentId)
    /\ UNCHANGED <<nodes, edges, simVars, lastOp, run, undecided, bfsSource, canvasVars>>

NextLinked == SkipVisited \/ Expand

SpecLinked == InitLinked /\ [][NextLinked]_vars

\* The loop goes on as long as the queue is not empty.
SpecLinkedFair == SpecLinked /\ WF_vars(NextLinked)

----------------------------------------------------------------------------
\* WorkflowCanvas: documents and the cleanup pass of load and import

\* Longest edge list cleanupWorkflow is run on by itself.
MaxDocEdges == 2

\* A node of the canvas, data flattened: parentPolicyId and outputId are set on a
\* policyOutput node, outputs and outputNodeIds on a policy node.
WorkflowNode(id, type, label, parent, out, outputs, outputNodeIds) ==
    [id |-> id, type |-> type, label |-> label, parentPolicyId |-> parent,
     outputId |-> out, outputs |-> outputs, outputNodeIds |-> outputNodeIds]

StepNode(id) == WorkflowNode(id, "step", "", "", "", <<>>, <<>>)

\* A handle id is the sequence of its parts between the '-' signs: <<"top", "source">>
\* is "top-source", <<"">> is the empty string, <<>> is undefined.
WorkflowEdge(id, s, t, sourceHandle, targetHandle, type) ==
    [id |-> id, source |-> s, target |-> t, sourceHandle |-> sourceHandle,
     targetHandle |-> targetHandle, type |-> type]

VALID_HANDLES == {"top", "bottom", "left", "right", "output"}

\* VALID_HANDLES.includes(handle)
isValidHandle(handle) == Len(handle) = 1 /\ handle[1] \in VALID_HANDLES

\* if (handle && !VALID_HANDLES.includes(handle)): handle.split('-')[0] when that is
\* valid, undefined otherwise
fixHandle(handle) ==
    IF handle = <<>> \/ handle = <<"">> \/ isValidHandle(handle) THEN handle
    ELSE IF isValidHandle(<<handle[1]>>) THEN <<handle[1]>>
    ELSE <<>>

\* self.findIndex(e => e.source === edge.source && e.target === edge.target)
findIndex(es, edge) ==
    CHOOSE i \in DOMAIN es :
        /\ es[i].source = edge.source /\ es[i].target = edge.target
        /\ \A j \in 1..(i - 1) : ~(es[j].source = edge.source /\ es[j].target = edge.target)

\* Slip: of the edges of one (source, target) pair the last is kept, not the first.
keepsEdge_lastOfPair(workflowNodes, workflowEdges, index) ==
    LET nodeIds == {n.id : n \in Range(workflowNodes)}
        edge == workflowEdges[index]
    IN  /\ edge.source \in nodeIds
        /\ edge.target \in nodeIds
        /\ \A j \in (index + 1)..Len(workflowEdges) :
               ~(workflowEdges[j].source = edge.source /\ workflowEdges[j].target = edge.target)

\* The callback of workflowEdges.filter: both ends exist and the edge is no duplicate.
keepsEdge(workflowNodes, workflowEdges, index) ==
    LET nodeIds == {n.id : n \in Range(workflowNodes)}
        edge == workflowEdges[index]
    IN  /\ edge.source \in nodeIds
        /\ edge.target \in nodeIds
        /\ findIndex(workflowEdges, edge) = index

cleanupWorkflow(workflowNodes, workflowEdges) ==
    LET kept[i \in 0..Len(workflowEdges)] ==
            IF i = 0 THEN <<>>
            ELSE IF keepsEdge(workflowNodes, workflowEdges, i)
                 THEN Append(kept[i - 1], workflowEdges[i])
                 ELSE kept[i - 1]
        filteredEdges == kept[Len(workflowEdges)]
        cleanedEdges ==
            [i \in DOMAIN filteredEdges |->
                [filteredEdges[i] EXCEPT !.type = "floating",
                                         !.sourceHandle = fixHandle(@),
                                         !.targetHandle = fixHandle(@)]]
    IN  [nodes |-> workflowNodes, edges |-> cleanedEdges]

----------------------------------------------------------------------------
\* cleanupWorkflow by itself, on the documents of a bound

DocIds == {"node_0", "node_1"}

\* Both nodes, or node_0 alone (node_1 was deleted, edges may still name it).
DocNodeLists == { << StepNode("node_0"), StepNode("node_1") >>, << StepNode("node_0") >> }

\* sourceHandle, targetHandle and type of an edge as a document may carry them.
HandleSamples ==
    { << <<>>, <<>>, "floating" >>,
      << <<"top">>, <<"output">>, "" >>,
      << <<"top", "source">>, <<"bottom", "1">>, "default" >>,
      << <<"foo", "top">>, <<"">>, "floating" >>,
      << <<"">>, <<"handle">>, "smoothstep" >> }

EdgeSamples ==
    { WorkflowEdge("", s, t, h[1], h[2], h[3]) : s \in DocIds, t \in DocIds, h \in HandleSamples }

\* Every edge list of at most MaxDocEdges sampled edges, ids by position.
DocEdgeLists ==
    UNION { { [i \in 1..n |-> [es[i] EXCEPT !.id = EdgeNames[i]]] : es \in [1..n -> EdgeSamples] }
            : n \in 0..MaxDocEdges }

InitCleanup ==
    /\ nodes \in DocNodeLists
    /\ edges \in DocEdgeLists
    /\ executedNodes = {}
    /\ activeNodes = {}
    /\ executedEdges = {}
    /\ animatingEdges = {}
    /\ waitingForDecision = {}
    /\ triggeredOutputNodes = {}
    /\ simulationTimeouts = EmptyBag
    /\ lastOp = Op("init", "", "", 0)
    /\ run = NoRun
    /\ undecided = {}
    /\ bfsSource = ""
    /\ bfsQueue = <<>>
    /\ bfsVisited = {}
    /\ bfsLinked = {}
    /\ expanded = <<>>
    /\ canvasMounted

\* One pass of cleanupWorkflow over the document, the second pass over the result of
\* the first; lastOp.undone counts the passes, lastOp.out tells that edges were dropped.
CleanupPass ==
    LET cleaned == cleanupWorkflow(nodes, edges)
    IN  /\ lastOp.undone < 2
        /\ nodes' = cleaned.nodes
        /\ edges' = cleaned.edges
        /\ lastOp' = Op("cleanup", "",
                        IF Len(cleaned.edges) < Len(edges) THEN "dropped" ELSE "",
                        lastOp.undone + 1)
        /\ UNCHANGED <<simVars, run, undecided, bfsVars, canvasVars>>

NextCleanup == CleanupPass

SpecCleanup == InitCleanup /\ [][NextCleanup]_vars

----------------------------------------------------------------------------
\* WorkflowCanvas: load at mount, import, clear, with the simulation running

\* The ids getNodeId hands out: `node_${nodeId++}`
NodeIdNames == << "node_0", "node_1", "node_2", "node_3", "node_4", "node_5", "node_6", "node_7" >>

\* parseInt(id.replace('node_', ''), 10), -1 standing for NaN
parseNodeNumber(id) ==
    IF \E i \in DOMAIN NodeIdNames : NodeIdNames[i] = id
    THEN (CHOOSE i \in DOMAIN NodeIdNames : NodeIdNames[i] = id) - 1
    ELSE -1

\* The counter taken from the number of nodes instead of their ids.
maxId_count(workflowNodes) == Len(workflowNodes) - 1

\* workflow.nodes.reduce((max, node) => isNaN(id) ? max : Math.max(max, id), 0)
maxId(workflowNodes) ==
    LET numbers == {parseNodeNumber(n.id) : n \in Range(workflowNodes)} \cup {0}
    IN  CHOOSE m \in numbers : \A k \in numbers : k <= m

\* A Trigger with two ways to the step node_2, and an edge left behind by a deleted
\* node.
RunDocument ==
    [nodes |-> << WorkflowNode("node_0", "trigger", "", "", "", <<>>, <<>>),
                  StepNode("node_1"), StepNode("node_2") >>,
     edges |-> << WorkflowEdge("e1", "node_0", "node_1", <<"bottom">>, <<"top">>, "floating"),
                  WorkflowEdge("e2", "node_0", "node_2", <<>>, <<>>, "floating"),
                  WorkflowEdge("e3", "node_1", "node_2", <<>>, <<>>, "floating"),
                  WorkflowEdge("e4", "node_2", "node_5", <<>>, <<>>, "floating") >>]

\* What the canvas holds, saves and exports after a PolicyOutput node was pasted and
\* the Policy node_0 deleted: the pasted node_3 still names node_0 as its parent.
OrphanOutputDocument ==
    [nodes |-> << StepNode("node_4"),
                  WorkflowNode("node_3", "policyOutput", "Oui", "node_0", "output_yes",
                               <<>>, <<>>) >>,
     edges |-> << WorkflowEdge("e1", "node_3", "node_4", <<"output">>, <<"top">>, "floating") >>]

Documents == {RunDocument, OrphanOutputDocument}

\* A file handed to handleImport: text that JSON.parse accepts or not, and the keys of
\* the parsed object.
Payload(kind, doc) ==
    [kind |-> kind, nodes |-> doc.nodes, edges |-> doc.edges]

Payloads ==
    {Payload("document", d) : d \in Documents}
        \cup {Payload(k, RunDocument) : k \in {"invalidJson", "noNodesKey", "noEdgesKey"}}

\* Pending timer callbacks keep the graph they were scheduled on when it is replaced.
staleAfterReload == stale \/ simulationTimeouts # EmptyBag

\* setNodes(cleaned.nodes); setEdges(cleaned.edges); nodeId = maxId + 1
adopt(workflowNodes, workflowEdges) ==
    LET cleaned == cleanupWorkflow(workflowNodes, workflowEdges)
    IN  /\ nodes' = cleaned.nodes
        /\ edges' = cleaned.edges
        /\ nodeId' = maxId(workflowNodes) + 1
        /\ stale' = staleAfterReload

\* The effect that runs once after mount: loadWorkflow() gave the saved document.
LoadWorkflow(saved) ==
    /\ lastOp.op = "init"
    /\ adopt(saved.nodes, saved.edges)
    /\ notifications' = <<>>
    /\ lastOp' = Op("load", "", "document", 0)
    /\ run' = NoRun
    /\ UNCHANGED <<simVars, undecided, bfsVars, clipboard, dragVars>>

\* The same effect with nothing saved: loadWorkflow() gave null.
LoadNothing ==
    /\ lastOp.op = "init"
    /\ lastOp' = Op("load", "", "null", 0)
    /\ run' = NoRun
    /\ UNCHANGED <<nodes, edges, simVars, undecided, bfsVars, canvasVars>>

\* reader.onload of handleImport
Import(payload) ==
    /\ lastOp.op # "init"
    /\ IF payload.kind = "invalidJson"
       THEN /\ notifications' = <<"Fichier JSON invalide">>
            /\ UNCHANGED <<nodes, edges, nodeId, stale>>
       ELSE IF payload.kind = "document"
       THEN adopt(payload.nodes, payload.edges) /\ notifications' = <<>>
       ELSE /\ notifications' = <<>>
            /\ UNCHANGED <<nodes, edges, nodeId, stale>>
    /\ lastOp' = Op("import", "", payload.kind, 0)
    /\ run' = NoRun
    /\ UNCHANGED <<simVars, undecided, bfsVars, clipboard, dragVars>>

\* handleClear
Clear ==
    /\ lastOp.op # "init"
    /\ nodes' = <<>>
    /\ edges' = <<>>
    /\ nodeId' = 0
    /\ stale' = staleAfterReload
    /\ notifications' = <<>>
    /\ lastOp' = Op("clear", "", "", 0)
    /\ run' = NoRun
    /\ UNCHANGED <<simVars, undecided, bfsVars, clipboard, dragVars>>

InitLoad ==
    /\ nodes = <<>>
    /\ edges = <<>>
    /\ executedNodes = {}
    /\ activeNodes = {}
    /\ executedEdges = {}
    /\ animatingEdges = {}
    /\ waitingForDecision = {}
    /\ triggeredOutputNodes = {}
    /\ simulationTimeouts = EmptyBag
    /\ lastOp = Op("init", "", "", 0)
    /\ run = NoRun
    /\ undecided = {}
    /\ bfsSource = ""
    /\ bfsQueue = <<>>
    /\ bfsVisited = {}
    /\ bfsLinked = {}
    /\ expanded = <<>>
    /\ canvasMounted

\* A callback that closes over a replaced graph is not followed; trigger cancels
\* every pending callback and runs on the graph of the canvas.
NextLoad ==
    \/ \E saved \in Documents : LoadWorkflow(saved)
    \/ LoadNothing
    \/ \E payload \in Payloads : Import(payload)
    \/ Clear
    \/ \E id \in TriggerIds : lastOp.op # "init" /\ Trigger(id)
    \/ \E t \in BagToSet(simulationTimeouts) : ~stale /\ FireTimeout(t)

SpecLoad == InitLoad /\ [][NextLoad]_vars

----------------------------------------------------------------------------
\* WorkflowCanvas: the edit operations

\* Most node ids getNodeId hands out (the code has no limit).
MaxNodes == 4

\* Most edges drawn on the canvas (the code has no limit).
MaxCanvasEdges == 1

\* `node_${nodeId++}`, for the k-th call of a handler that starts with nodeId = counter
getNodeId(counter, k) == NodeIdNames[counter + k]

PolicyOutput(id, label) == [id |-> id, label |-> label]

\* outputs of a new Policy node
DefaultOutputs == << PolicyOutput("output_yes", "Oui"), PolicyOutput("output_no", "Non") >>

\* The Policy node, then one PolicyOutput node per output.
createPolicyWithOutputs(counter) ==
    LET policyId == getNodeId(counter, 1)
        outputNodes ==
            [i \in DOMAIN DefaultOutputs |->
                WorkflowNode(getNodeId(counter, i + 1), "policyOutput", DefaultOutputs[i].label,
                             policyId, DefaultOutputs[i].id, <<>>, <<>>)]
        policyNode ==
            WorkflowNode(policyId, "policy", "Policy", "", "", DefaultOutputs,
                         [i \in DOMAIN outputNodes |-> outputNodes[i].id])
    IN  <<policyNode>> \o outputNodes

\* Slip: every output of the new list gets a new PolicyOutput node.
addedOutputs_all(policyNode, newOutputs) == newOutputs

\* newOutputs.filter(o => !existingOutputIds.includes(o.id))
addedOutputs(policyNode, newOutputs) ==
    SelectSeq(newOutputs, LAMBDA o : o.id \notin {x.id : x \in Range(policyNode.outputs)})

\* existingOutputIds.filter(id => !newOutputIds.includes(id))
removedOutputIds(policyNode, newOutputs) ==
    {x.id : x \in Range(policyNode.outputs)} \ {o.id : o \in Range(newOutputs)}

\* ids of the PolicyOutput nodes of the Policy that are bound to a removed output
outputNodeIdsToRemove(policyNodeId, removed) ==
    {n.id : n \in {x \in Range(nodes) : /\ x.type = "policyOutput"
                                          /\ x.parentPolicyId = policyNodeId
                                          /\ x.outputId \in removed}}

\* Slip: the setEdges call is missing, the edges of the removed nodes stay.
edgesWithout_keepAll(nodeIdsToRemove) == edges

\* if (nodeIdsToRemove.size > 0) setEdges(eds => eds.filter(...))
edgesWithout(nodeIdsToRemove) ==
    SelectSeq(edges, LAMBDA e : e.source \notin nodeIdsToRemove /\ e.target \notin nodeIdsToRemove)

\* newOutputs.find(o => o.id === outputId), <<>> when absent
matchingOutput(newOutputs, outputId) == SelectSeq(newOutputs, LAMBDA o : o.id = outputId)

\* handleOutputsChange: the nodes, the edges and the counter it leaves
handleOutputsChange(policyNodeId, newOutputs) ==
    LET found == SelectSeq(nodes, LAMBDA n : n.id = policyNodeId)
    IN  IF found = <<>> \/ Head(found).type # "policy"
        THEN [nodes |-> nodes, edges |-> edges, nodeId |-> nodeId]
        ELSE LET policyNode == Head(found)
                 added == addedOutputs(policyNode, newOutputs)
                 nodeIdsToRemove ==
                     outputNodeIdsToRemove(policyNodeId, removedOutputIds(policyNode, newOutputs))
                 newOutputNodes ==
                     [i \in DOMAIN added |->
                         WorkflowNode(getNodeId(nodeId, i), "policyOutput", added[i].label,
                                      policyNodeId, added[i].id, <<>>, <<>>)]
                 newOutputNodeIds ==
                     SelectSeq(policyNode.outputNodeIds, LAMBDA id : id \notin nodeIdsToRemove)
                         \o [i \in DOMAIN newOutputNodes |-> newOutputNodes[i].id]
                 remaining == SelectSeq(nodes, LAMBDA n : n.id \notin nodeIdsToRemove)
                 updated(n) ==
                     IF n.id = policyNodeId
                     THEN [n EXCEPT !.outputs = newOutputs, !.outputNodeIds = newOutputNodeIds]
                     ELSE IF /\ n.type = "policyOutput"
                             /\ n.parentPolicyId = policyNodeId
                             /\ matchingOutput(newOutputs, n.outputId) # <<>>
                     THEN [n EXCEPT !.label = Head(matchingOutput(newOutputs, n.outputId)).label]
                     ELSE n
                 updatedNodes == [i \in DOMAIN remaining |-> updated(remaining[i])]
             IN  [nodes |-> updatedNodes \o newOutputNodes,
                  edges |-> IF nodeIdsToRemove # {} THEN edgesWithout(nodeIdsToRemove) ELSE edges,
                  nodeId |-> nodeId + Len(added)]

\* handleNodesChange: the ids it adds to a batch of removals, the PolicyOutput nodes
\* listed by the Policy nodes of the batch
additionalChanges(batch) ==
    UNION {Range(n.outputNodeIds) : n \in {x \in Range(nodes) : x.id \in batch /\ x.type = "policy"}}
        \ batch

\* Output lists handleOutputsChange is called with, no id twice, as PolicyNode builds
\* them: the default list, one label changed, one output removed, one added, one
\* replaced by another.
OutputLists ==
    { DefaultOutputs,
      << PolicyOutput("output_yes", "Oui"), PolicyOutput("output_no", "Oui") >>,
      << PolicyOutput("output_yes", "Oui") >>,
      << PolicyOutput("output_yes", "Oui"), PolicyOutput("output_no", "Non"),
         PolicyOutput("output_1", "Option 3") >>,
      << PolicyOutput("output_yes", "Oui"), PolicyOutput("output_1", "Option 3") >> }

\* A Policy with every list; a node that is no Policy and a missing id with one list.
OutputsArgs ==
    (PolicyIds \X OutputLists)
        \cup (((NodeIds \ PolicyIds) \cup {MissingId}) \X {<< PolicyOutput("output_1", "Option 3") >>})

\* Removal batches: the Delete key with one node selected, or with a Policy node and
\* one of the nodes it lists selected.
Batches ==
    {{id} : id \in NodeIds}
        \cup UNION {{{n.id, o} : o \in Range(n.outputNodeIds) \cap NodeIds} :
                       n \in {x \in Range(nodes) : x.type = "policy"}}

\* Selections copied: one node at a time.
Selections == {{id} : id \in NodeIds}

InitCanvas == InitLoad

\* History of an edit: undone is the number of edges the handler removed.
canvasOp(name, id, undone) ==
    /\ lastOp' = Op(name, id, "", undone)
    /\ notifications' = <<>>
    /\ UNCHANGED <<simVars, run, undecided, bfsVars, stale, dragVars>>

\* addNode and onDrop
AddNode(type) ==
    LET newNodes == IF type = "policy" THEN createPolicyWithOutputs(nodeId)
                    ELSE << StepNode(getNodeId(nodeId, 1)) >>
    IN  /\ nodeId + (IF type = "policy" THEN 1 + Len(DefaultOutputs) ELSE 1) <= MaxNodes
        /\ nodes' = nodes \o newNodes
        /\ nodeId' = nodeId + Len(newNodes)
        /\ canvasOp("addNode", "", 0)
        /\ UNCHANGED <<edges, clipboard>>

\* onConnect: a second edge between the same source and target is refused
Connect(s, t) ==
    /\ Len(edges) < MaxCanvasEdges
    /\ edges' = IF \E e \in Range(edges) : e.source = s /\ e.target = t THEN edges
                ELSE Append(edges, WorkflowEdge(<<s, t>>, s, t, <<>>, <<>>, "floating"))
    /\ canvasOp("connect", "", 0)
    /\ UNCHANGED <<nodes, nodeId, clipboard>>

OutputsChange(policyNodeId, newOutputs) ==
    LET after == handleOutputsChange(policyNodeId, newOutputs)
    IN  /\ after.nodeId <= MaxNodes
        /\ nodes' = after.nodes
        /\ edges' = after.edges
        /\ nodeId' = after.nodeId
        /\ canvasOp("outputsChange", policyNodeId, Len(edges) - Len(after.edges))
        /\ UNCHANGED clipboard

\* The Delete key on the selected nodes: React Flow removes the edges connected to them
\* (onEdgesChange) and hands the removals to handleNodesChange, which adds its cascade.
RemoveNodes(batch) ==
    LET removed == batch \cup additionalChanges(batch)
    IN  /\ nodes' = SelectSeq(nodes, LAMBDA n : n.id \notin removed)
        /\ edges' = SelectSeq(edges, LAMBDA e : e.source \notin batch /\ e.target \notin batch)
        /\ canvasOp("removeNodes", "", Cardinality({i \in DOMAIN edges :
                           edges[i].source \in batch \/ edges[i].target \in batch}))
        /\ UNCHANGED <<nodeId, clipboard>>

\* handleCopy with the nodes of selection selected
Copy(selection) ==
    /\ clipboard' = SelectSeq(nodes, LAMBDA n : n.id \in selection)
    /\ canvasOp("copy", "", 0)
    /\ UNCHANGED <<nodes, edges, nodeId>>

\* handlePaste
Paste ==
    LET newNodes == [i \in DOMAIN clipboard |-> [clipboard[i] EXCEPT !.id = getNodeId(nodeId, i)]]
    IN  /\ clipboard # <<>>
        /\ nodeId + Len(clipboard) <= MaxNodes
        /\ clipboard' = newNodes
        /\ nodes' = nodes \o newNodes
        /\ nodeId' = nodeId + Len(newNodes)
        /\ canvasOp("paste", "", 0)
        /\ UNCHANGED edges

\* A canvas of Policy nodes: Policies are added, edges drawn between their nodes,
\* outputs changed, nodes deleted.
NextOutputs ==
    \/ AddNode("policy")
    \/ \E s, t \in NodeIds : Connect(s, t)
    \/ \E a \in OutputsArgs : OutputsChange(a[1], a[2])
    \/ \E batch \in Batches : RemoveNodes(batch)

SpecOutputs == InitCanvas /\ [][NextOutputs]_vars

\* The same with steps, copy and paste.
NextCanvas ==
    \/ \E type \in {"step", "policy"} : AddNode(type)
    \/ \E s, t \in NodeIds : Connect(s, t)
    \/ \E a \in OutputsArgs : OutputsChange(a[1], a[2])
    \/ \E batch \in Batches : RemoveNodes(batch)
    \/ \E selection \in Selections : Copy(selection)
    \/ Paste

SpecCanvas == InitCanvas /\ [][NextCanvas]_vars

----------------------------------------------------------------------------
\* One wave by itself: trigger(T) on an empty simulation, then nothing but the timers

\* Two ways of the same length from T to the step C (T -> A -> C, T -> B -> C), and an
\* edge that leaves C.
StepDiamondGraph ==
    [nodes |-> << Node("T", "trigger"), Node("A", "step"), Node("B", "step"),
                  Node("C", "step"), Node("D", "step") >>,
     edges |-> << Edge("T-A", "T", "A"), Edge("T-B", "T", "B"), Edge("A-C", "A", "C"),
                  Edge("B-C", "B", "C"), Edge("C-D", "C", "D") >>]

\* The step A leads to a second Trigger U and to the step B; the step C lies behind U.
RelayGraph ==
    [nodes |-> << Node("T", "trigger"), Node("A", "step"), Node("U", "trigger"),
                  Node("B", "step"), Node("C", "step") >>,
     edges |-> << Edge("T-A", "T", "A"), Edge("A-U", "A", "U"), Edge("A-B", "A", "B"),
                  Edge("U-C", "U", "C") >>]

WaveGraphs == Graphs \cup {StepDiamondGraph, RelayGraph}

InitWave ==
    /\ \E g \in WaveGraphs : nodes = g.nodes /\ edges = g.edges
    /\ executedNodes = {}
    /\ activeNodes = {}
    /\ executedEdges = {}
    /\ animatingEdges = {}
    /\ waitingForDecision = {}
    /\ triggeredOutputNodes = {}
    /\ simulationTimeouts = EmptyBag
    /\ lastOp = Op("init", "", "", 0)
    /\ run = NoRun
    /\ undecided = {}
    /\ bfsSource = ""
    /\ bfsQueue = <<>>
    /\ bfsVisited = {}
    /\ bfsLinked = {}
    /\ expanded = <<>>
    /\ canvasMounted

\* handleTrigger is called once, with any id; the timers are all that runs afterwards.
NextWave ==
    \/ \E id \in NodeIds \cup DeletedIds : lastOp.op = "init" /\ Trigger(id)
    \/ \E t \in BagToSet(simulationTimeouts) : FireTimeout(t)

SpecWave == InitWave /\ [][NextWave]_vars

\* Every timer callback a wave can schedule on one of the graphs.
WaveTimeouts ==
    UNION {{[edge |-> e, isTargetTrigger |-> b] : e \in Range(g.edges), b \in BOOLEAN} :
               g \in WaveGraphs}

\* window.setTimeout runs each callback that is not cleared, SIMULATION_DELAY after it
\* was scheduled.
SpecWaveFair == SpecWave /\ \A t \in WaveTimeouts : WF_vars(FireTimeout(t))

----------------------------------------------------------------------------
\* WorkflowCanvas: the ids of the nodes through load, import, clear and the edits

\* A document whose highest id is not the id of its last node, with a node whose id
\* has no number.
GapDocument ==
    [nodes |-> << StepNode("node_2"), StepNode("start") >>,
     edges |-> << WorkflowEdge("e1", "start", "node_2", <<>>, <<>>, "floating") >>]

\* The load effect runs once after mount, before any edit; then documents are imported,
\* the canvas is cleared, nodes are added, copied and pasted, outputs changed. An
\* outputs change adds an output to the default list or removes all outputs but the
\* first; steps are copied one at a time.
NextIds ==
    \/ \E saved \in Documents \cup {GapDocument} : LoadWorkflow(saved)
    \/ LoadNothing
    \/ \E d \in Documents \cup {GapDocument} : Import(Payload("document", d))
    \/ Clear
    \/ \E type \in {"step", "policy"} : lastOp.op # "init" /\ AddNode(type)
    \/ \E policyNodeId \in PolicyIds :
           \E newOutputs \in { << PolicyOutput("output_yes", "Oui"),
                                  PolicyOutput("output_no", "Non"),
                                  PolicyOutput("output_1", "Option 3") >>,
                               << PolicyOutput("output_yes", "Oui") >> } :
               lastOp.op # "init" /\ OutputsChange(policyNodeId, newOutputs)
    \/ \E n \in {x \in Range(nodes) : x.type = "step"} :
           lastOp.op # "init" /\ Copy({n.id})
    \/ lastOp.op # "init" /\ Paste

SpecIds == InitLoad /\ [][NextIds]_vars

----------------------------------------------------------------------------
\* WorkflowCanvas: a node is dragged (position changes through handleNodesChange)

GRID_SIZE == 20
POLICY_OUTPUT_OFFSET_X == 180
POLICY_OUTPUT_SPACING_Y == 60

\* Farthest a PolicyOutput node may get from its place beside its Policy, in grid steps
\* (the code has no limit).
MaxDrift == 2

\* Positions are pairs <<x, y>>.
plus(a, b) == <<a[1] + b[1], a[2] + b[2]>>
minus(a, b) == <<a[1] - b[1], a[2] - b[2]>>

\* position of the index-th PolicyOutput node (from 0) of a new Policy with count
\* outputs that is put at at
outputPosition(at, index, count) ==
    <<at[1] + POLICY_OUTPUT_OFFSET_X,
      (at[2] - ((count - 1) * POLICY_OUTPUT_SPACING_Y) \div 2) + index * POLICY_OUTPUT_SPACING_Y>>

\* Where the pointer takes a dragged node: snapToGrid, snapGrid [GRID_SIZE, GRID_SIZE].
DropPoints == {<<x * GRID_SIZE, y * GRID_SIZE>> : x \in 0..1, y \in 0..1}

\* A Policy (node_0) dropped at the origin with its two PolicyOutput nodes, and a step.
DragNodes == createPolicyWithOutputs(0) \o << StepNode(getNodeId(0, 4)) >>

InitDrag ==
    /\ nodes = DragNodes
    /\ edges = <<>>
    /\ executedNodes = {}
    /\ activeNodes = {}
    /\ executedEdges = {}
    /\ animatingEdges = {}
    /\ waitingForDecision = {}
    /\ triggeredOutputNodes = {}
    /\ simulationTimeouts = EmptyBag
    /\ lastOp = Op("init", "", "", 0)
    /\ run = NoRun
    /\ undecided = {}
    /\ bfsSource = ""
    /\ bfsQueue = <<>>
    /\ bfsVisited = {}
    /\ bfsLinked = {}
    /\ expanded = <<>>
    /\ nodeId = Len(DragNodes)
    /\ clipboard = <<>>
    /\ notifications = <<>>
    /\ stale = FALSE
    /\ position = [id \in {n.id : n \in Range(DragNodes)} |->
                      IF id = getNodeId(0, 1) THEN <<0, 0>>
                      ELSE IF id = getNodeId(0, 2) THEN outputPosition(<<0, 0>>, 0, 2)
                      ELSE IF id = getNodeId(0, 3) THEN outputPosition(<<0, 0>>, 1, 2)
                      ELSE <<0, 2 * POLICY_OUTPUT_SPACING_Y>>]
    /\ policyDragStart = {}
    /\ rendered = position

\* policyDragStart.current.get(node.id) || node.position, node being the node of the
\* render the handler was created in
previousPos(id) ==
    IF \E r \in policyDragStart : r[1] = id
    THEN (CHOOSE r \in policyDragStart : r[1] = id)[2]
    ELSE rendered[id]

\* The position changes handleNodesChange adds for the PolicyOutput nodes listed by a
\* dragged Policy: outputNode.position plus the delta, outputNode taken from the same
\* render.
childPositions(id, to) ==
    LET found == SelectSeq(nodes, LAMBDA n : n.id = id)
        delta == minus(to, previousPos(id))
    IN  IF found = <<>> \/ Head(found).type # "policy" THEN <<>>
        ELSE [c \in Range(Head(found).outputNodeIds) \cap DOMAIN rendered |->
                 plus(rendered[c], delta)]

\* How far, in grid steps, the PolicyOutput nodes are from their place beside the Policy.
drift(pos) ==
    LET off(c, k) == minus(minus(pos[c], pos[getNodeId(0, 1)]), outputPosition(<<0, 0>>, k, 2))
        abs(v) == IF v < 0 THEN 0 - v ELSE v
        far(c, k) == (abs(off(c, k)[1]) + abs(off(c, k)[2])) \div GRID_SIZE
    IN  IF far(getNodeId(0, 2), 0) < far(getNodeId(0, 3), 1)
        THEN far(getNodeId(0, 3), 1) ELSE far(getNodeId(0, 2), 0)

\* handleNodesChange with one position change {id, position: to, dragging: true};
\* useNodesState applies the change and the added ones to the current nodes.
DragNode(id, to) ==
    LET moved == childPositions(id, to)
        after == [n \in DOMAIN position |->
                     IF n \in DOMAIN moved THEN moved[n] ELSE IF n = id THEN to ELSE position[n]]
    IN  /\ lastOp.out = "dragging" => lastOp.id = id
        /\ to # position[id]
        /\ drift(after) <= MaxDrift
        /\ position' = after
        /\ policyDragStart' =
               IF nodeType(id) = "policy"
               THEN {r \in policyDragStart : r[1] # id} \cup {<<id, to>>}
               ELSE policyDragStart
        /\ lastOp' = Op("drag", id, "dragging", 0)
        /\ UNCHANGED <<nodes, edges, simVars, run, undecided, bfsVars,
                       nodeId, clipboard, notifications, stale, rendered>>

\* The end of the drag: handleNodesChange with {id, dragging: false} and no position.
DragStop ==
    /\ lastOp.out = "dragging"
    /\ policyDragStart' = {r \in policyDragStart : r[1] # lastOp.id}
    /\ lastOp' = Op("dragStop", lastOp.id, "", 0)
    /\ UNCHANGED <<nodes, edges, simVars, run, undecided, bfsVars,
                   nodeId, clipboard, notifications, stale, position, rendered>>

\* React renders the canvas again: handleNodesChange is created anew (its dependency
\* nodes changed) and closes over the current nodes.
Render ==
    /\ rendered # position
    /\ rendered' = position
    /\ lastOp' = Op("render", lastOp.id, lastOp.out, 0)
    /\ UNCHANGED <<nodes, edges, simVars, run, undecided, bfsVars,
                   nodeId, clipboard, notifications, stale, position, policyDragStart>>

\* A Policy or a step is dragged; position changes may reach the handler faster than
\* React renders (pointer moves, and the automatic pan at the border of the pane).
NextDrag ==
    \/ \E id \in {getNodeId(0, 1), getNodeId(0, 4)}, to \in DropPoints : DragNode(id, to)
    \/ DragStop
    \/ Render

SpecDrag == InitDrag /\ [][NextDrag]_vars

----------------------------------------------------------------------------
\* Properties

\* The timers a handler leaves pending when it starts a wave at id with nothing pending.
ownTimeouts(id) == handleExecuteNode(EmptySim, id).simulationTimeouts

\* C1: after trigger, triggerFromOutput or resetSimulation no timer scheduled before
\* the call is left to run: the pending timers are exactly the ones the call itself
\* scheduled (none after resetSimulation), so no stale callback can mark an edge
\* executed or execute a node.
C1_StaleTimersCancelled ==
    [][ /\ lastOp'.op \in {"trigger", "triggerFromOutput"}
            => simulationTimeouts' = ownTimeouts(lastOp'.id)
        /\ lastOp'.op = "resetSimulation" => simulationTimeouts' = EmptyBag ]_vars

\* A trigger was called while timers of an earlier wave were pending.
C1_Witness ==
    /\ lastOp.op = "trigger"
    /\ lastOp.undone > 0
    /\ simulationTimeouts = ownTimeouts(lastOp.id)
    /\ simulationTimeouts # EmptyBag

\* C2: trigger(T) called twice in a row on an empty simulation, no timer firing in
\* between, leaves the state of a single trigger(T) on an empty simulation.
C2_RetriggerIdempotent ==
    run.stage = "again" => Sim = handleTrigger(EmptySim, run.root)

\* The second trigger(T) found the timers of the first one pending.
C2_Witness ==
    /\ run.stage = "again"
    /\ lastOp.op = "trigger"
    /\ lastOp.undone > 0
    /\ simulationTimeouts # EmptyBag

\* C3: trigger(T) on an in-flight run started from T, whatever its stage, leaves the
\* state of trigger(T) on a freshly reset simulation.
C3_RetriggerUnwinds ==
    run.stage = "unwound" => Sim = handleTrigger(EmptySim, run.root)

\* The edge a timer step (lastOp.op = "timeout") was about.
edgeOf(op) == CHOOSE e \in Range(edges) : e.id = op.id

isTimeoutInto(op, type) ==
    op.op = "timeout" /\ nodeType(edgeOf(op).target) = type

\* The step is one timer leaving the pending bag, its edge going from animating to
\* executed, and nothing else.
onlyEdgeCompletes(e) ==
    /\ animatingEdges' = animatingEdges \ {e.id}
    /\ executedEdges' = executedEdges \cup {e.id}
    /\ simulationTimeouts' = simulationTimeouts (-) SetToBag({Timeout(e)})
    /\ UNCHANGED <<executedNodes, activeNodes, triggeredOutputNodes>>

\* C4: executeNode(p) on a Policy p only adds p to waitingForDecision: p is not added
\* to executed, no other set changes, no edge becomes animating, no timer is scheduled
\* (also when the call is made by a timer callback whose edge leads to p).
C4_PolicyOnlyWaits ==
    [][ /\ (lastOp'.op = "executeNode" /\ nodeType(lastOp'.id) = "policy")
            => /\ waitingForDecision' = waitingForDecision \cup {lastOp'.id}
               /\ UNCHANGED <<executedNodes, activeNodes, executedEdges, animatingEdges,
                              triggeredOutputNodes, simulationTimeouts>>
        /\ isTimeoutInto(lastOp', "policy")
            => /\ waitingForDecision' = waitingForDecision \cup {edgeOf(lastOp').target}
               /\ onlyEdgeCompletes(edgeOf(lastOp')) ]_vars

\* executeNode was called on a Policy that was never decided.
C4_Witness ==
    /\ lastOp.op = "executeNode"
    /\ nodeType(lastOp.id) = "policy"
    /\ lastOp.id \in waitingForDecision
    /\ lastOp.id \notin executedNodes

\* C5: a Policy enters executed only in a resolvePolicyDecision step for that Policy
\* with an existing output, and no step leaves a Policy in active (active starts empty).
C5_PolicyExecutedOnlyByDecision ==
    [][ /\ \A p \in PolicyIds :
             (p \in executedNodes' /\ p \notin executedNodes)
                 => /\ lastOp'.op = "policyDecision"
                    /\ lastOp'.id = p
                    /\ findOutputNode(p, lastOp'.out) # <<>>
        /\ PolicyIds \cap activeNodes' = {} ]_vars

\* A Policy is executed right after a decision on it.
C5_Witness ==
    \E p \in PolicyIds :
        /\ p \in executedNodes
        /\ lastOp.op = "policyDecision"
        /\ lastOp.id = p

\* Edges whose source is a PolicyOutput node of Policy p.
outputEdges(p) ==
    {e \in Range(edges) : \E n \in Range(allOutputNodes(p)) : e.source = n.id}

\* C6 as stated, for the wave of a trigger(T) carried on by timers and decisions only:
\* while a Policy waits and neither a decision on it nor a triggerFromOutput on one of
\* its outputs was called since, no timer firing puts an edge sourced at one of its
\* outputs into animatingEdges or executedEdges.
C6_NoProgressPastWaitingPolicy ==
    [][ (lastOp'.op = "timeout" /\ run.stage # "none")
            => \A p \in undecided : \A e \in outputEdges(p) :
                  /\ e.id \in animatingEdges' => e.id \in animatingEdges
                  /\ e.id \in executedEdges' => e.id \in executedEdges ]_vars

\* C6 amended: the call chain that reaches a Policy ends there (the timer callback
\* schedules nothing and animates nothing); an edge sourced at a PolicyOutput node
\* becomes animating only by a decision choosing that output or by executeNode on
\* that output node (direct, by triggerFromOutput, or by the timer of an edge that
\* leads to the output node), and becomes executed only when its own timer fires.
C6_ProgressOnlyByDecisionOrOutput ==
    [][ /\ isTimeoutInto(lastOp', "policy") => onlyEdgeCompletes(edgeOf(lastOp'))
        /\ \A p \in PolicyIds : \A e \in outputEdges(p) :
              /\ (e.id \in animatingEdges' /\ e.id \notin animatingEdges)
                    => \/ /\ lastOp'.op = "policyDecision"
                          /\ lastOp'.id = p
                          /\ findOutputNode(p, lastOp'.out) # <<>>
                          /\ Head(findOutputNode(p, lastOp'.out)).id = e.source
                       \/ /\ lastOp'.op \in {"executeNode", "triggerFromOutput", "trigger"}
                          /\ lastOp'.id = e.source
                       \/ /\ lastOp'.op = "timeout"
                          /\ edgeOf(lastOp').target = e.source
              /\ (e.id \in executedEdges' /\ e.id \notin executedEdges)
                    => lastOp'.op = "timeout" /\ lastOp'.id = e.id ]_vars

\* A wave stopped at a Policy that still waits, and a decision moved on past it.
C6_Witness ==
    \E p \in PolicyIds :
        /\ lastOp.op = "policyDecision"
        /\ lastOp.id = p
        /\ \E e \in outputEdges(p) : e.id \in animatingEdges
        /\ \E e \in Range(edges) : e.target = p /\ e.id \in executedEdges

\* C7: when the timer of an edge whose target is a Trigger fires, the edge goes from
\* animating to executed and nothing else happens: the Trigger is not executed, none
\* of its outgoing edges becomes animating, no timer is scheduled.
C7_TriggerSuppression ==
    [][ isTimeoutInto(lastOp', "trigger")
            => /\ onlyEdgeCompletes(edgeOf(lastOp'))
               /\ UNCHANGED waitingForDecision ]_vars

\* The edge into a Trigger was completed and the Trigger was left alone.
C7_Witness ==
    /\ isTimeoutInto(lastOp, "trigger")
    /\ lastOp.id \in executedEdges
    /\ edgeOf(lastOp).target \notin executedNodes
    /\ edgeOf(lastOp).source \in executedNodes
    /\ \A e \in Range(edges) : e.source = edgeOf(lastOp).target => e.id \notin animatingEdges

\* Downstream-reachable set, as the least set closed under the edges.
RECURSIVE closure(_)
closure(set) ==
    LET more == set \cup {e.target : e \in {x \in Range(edges) : x.source \in set}}
    IN  IF more = set THEN set ELSE closure(more)

downstream(start) ==
    closure({e.target : e \in {x \in Range(edges) : x.source = start}}) \ {start}

siblingIds(p) == {n.id : n \in Range(allOutputNodes(p))}

behindOutputs(p) == UNION {downstream(o) : o \in siblingIds(p)}

\* Ids of the edges incident to a node behind an output of p, or sourced at an output.
edgesBehindOutputs(p) ==
    LET behind == behindOutputs(p)
        siblings == siblingIds(p)
    IN  {e.id : e \in {x \in Range(edges) :
            x.source \in behind \/ x.target \in behind \/ x.source \in siblings}}

\* C8: resolvePolicyDecision(P, o) with an existing output resets what lies behind
\* ANY output of P: its reset step leaves none of those nodes in executed, active or
\* waitingForDecision and none of those edges in executedEdges or animatingEdges; after
\* the call only P itself (marked executed) and the chosen edge (animating) are back.
C8_DecisionResetsAllBranches ==
    [][ (lastOp'.op = "policyDecision" /\ findOutputNode(lastOp'.id, lastOp'.out) # <<>>)
            => LET p == lastOp'.id
                   R == policyReset(Sim, p)
                   chosen == chosenEdge(Head(findOutputNode(p, lastOp'.out)))
                   chosenId == {chosen[i].id : i \in DOMAIN chosen \cap {1}}
                   behind == behindOutputs(p)
                   edgesBehind == edgesBehindOutputs(p)
               IN  /\ behind \cap
                         (R.executedNodes \cup R.activeNodes \cup R.waitingForDecision) = {}
                   /\ edgesBehind \cap (R.executedEdges \cup R.animatingEdges) = {}
                   /\ (behind \ {p}) \cap executedNodes' = {}
                   /\ behind \cap (activeNodes' \cup waitingForDecision') = {}
                   /\ edgesBehind \cap executedEdges' = {}
                   /\ (edgesBehind \ chosenId) \cap animatingEdges' = {} ]_vars

\* A decision reset a node that was executed through another output.
C8_Witness ==
    /\ lastOp.op = "policyDecision"
    /\ lastOp.undone > 0
    /\ behindOutputs(lastOp.id) \cap executedNodes \subseteq {lastOp.id}

\* C9: after its reset step resolvePolicyDecision(P, o) takes P out of
\* waitingForDecision, puts it into executed and follows the edge sourced at the chosen
\* output only: that edge is the only one made animating and gets the only timer that
\* is scheduled; no edge sourced at a sibling output is animating afterwards.
C9_DecisionFollowsChosenEdge ==
    [][ (lastOp'.op = "policyDecision" /\ findOutputNode(lastOp'.id, lastOp'.out) # <<>>)
            => LET p == lastOp'.id
                   o == Head(findOutputNode(p, lastOp'.out))
                   chosen == chosenEdge(o)
               IN  /\ p \notin waitingForDecision'
                   /\ p \in executedNodes'
                   /\ \A e \in Range(edges) :
                         (e.id \in animatingEdges' /\ e.id \notin animatingEdges)
                             => e.source = o.id /\ chosen # <<>> /\ e = Head(chosen)
                   /\ chosen # <<>> =>
                         /\ Head(chosen).id \in animatingEdges'
                         /\ simulationTimeouts' =
                                simulationTimeouts (+) SetToBag({Timeout(Head(chosen))})
                   /\ chosen = <<>> => simulationTimeouts' = simulationTimeouts
                   /\ \A e \in outputEdges(p) :
                         e.source # o.id => e.id \notin animatingEdges' ]_vars

\* A decision on a Policy with several outputs animates the chosen edge, timer pending.
C9_Witness ==
    /\ lastOp.op = "policyDecision"
    /\ findOutputNode(lastOp.id, lastOp.out) # <<>>
    /\ lastOp.id \in executedNodes
    /\ lastOp.id \notin waitingForDecision
    /\ \E e \in outputEdges(lastOp.id) :
          /\ e.source = Head(findOutputNode(lastOp.id, lastOp.out)).id
          /\ e.id \in animatingEdges
          /\ BagIn(Timeout(e), simulationTimeouts)
    /\ Cardinality(siblingIds(lastOp.id)) > 1

\* C10: resolvePolicyDecision is a no-op when no PolicyOutput node matches
\* (parentPolicyId, outputId): no simulation-state set and no pending timer changes.
C10_DecisionWithoutOutputIsNoOp ==
    [][ (lastOp'.op = "policyDecision" /\ findOutputNode(lastOp'.id, lastOp'.out) = <<>>)
            => UNCHANGED simVars ]_vars

\* A decision on a missing output was asked of a Policy that waits.
C10_Witness ==
    /\ lastOp.op = "policyDecision"
    /\ findOutputNode(lastOp.id, lastOp.out) = <<>>
    /\ lastOp.id \in waitingForDecision
    /\ simulationTimeouts # EmptyBag

simSets == <<executedNodes, activeNodes, executedEdges, animatingEdges,
             waitingForDecision, triggeredOutputNodes>>

\* C11: trigger(id) and executeNode(id) called with an id that is not a node of the
\* graph (a deleted node) change none of the simulation-state sets.
C11_MissingNodeIsNoOp ==
    [][ (lastOp'.op \in {"trigger", "executeNode"} /\ lastOp'.id \notin NodeIds)
            => UNCHANGED simSets ]_vars

\* C12: after trigger(T), with D the downstream-reachable set of T, no node of D is in
\* executed, active, waitingForDecision or triggeredOutputNodes, no edge whose source
\* is in D or is T is in executedEdges, and the only such edges in animatingEdges are
\* the outgoing edges of T.
C12_TriggerPurgesDownstream ==
    [][ lastOp'.op = "trigger"
            => LET T == lastOp'.id
                   D == downstream(T)
                   purged == {e \in Range(edges) : e.source \in D \/ e.source = T}
               IN  /\ D \cap (executedNodes' \cup activeNodes' \cup waitingForDecision'
                                 \cup triggeredOutputNodes') = {}
                   /\ \A e \in purged :
                         /\ e.id \notin executedEdges'
                         /\ e.id \in animatingEdges' => e.source = T ]_vars

\* The simulation state with triggeredOutputNodes left out.
withoutTriggered(S) == [S EXCEPT !.triggeredOutputNodes = {}]

\* The handler or callback that op names, applied to the simulation state S.
replay(S, op) ==
    CASE op.op = "executeNode" -> handleExecuteNode(S, op.id)
      [] op.op = "trigger" -> handleTrigger(S, op.id)
      [] op.op = "triggerFromOutput" -> handleTriggerFromOutput(S, op.id)
      [] op.op = "policyDecision" -> handlePolicyDecision(S, op.id, op.out)
      [] op.op = "resetSimulation" -> handleResetSimulation(S)
      [] op.op = "timeout" ->
            LET t == Timeout(edgeOf(op))
            IN  timeoutCallback([S EXCEPT !.simulationTimeouts = @ (-) SetToBag({t})], t)
      [] OTHER -> S

\* C13: triggerFromOutput(o) leaves executed, active, waitingForDecision, executedEdges,
\* animatingEdges and the pending timers as trigger(o) would, and adds o to
\* triggeredOutputNodes; and every step leaves the other sets and the timers as it
\* would have with triggeredOutputNodes empty.
C13_TriggerFromOutputIsTrigger ==
    [][ /\ lastOp'.op = "triggerFromOutput"
            => Sim' = [handleTrigger(Sim, lastOp'.id) EXCEPT
                          !.triggeredOutputNodes = triggeredOutputNodes \cup {lastOp'.id}]
        /\ withoutTriggered(Sim') =
               withoutTriggered(replay(withoutTriggered(Sim), lastOp')) ]_vars

\* triggerFromOutput restarted a branch whose earlier wave was still in flight.
C13_Witness ==
    /\ lastOp.op = "triggerFromOutput"
    /\ lastOp.undone > 0
    /\ lastOp.id \in triggeredOutputNodes
    /\ lastOp.id \in executedNodes
    /\ \E e \in Range(edges) : e.source = lastOp.id /\ e.id \in animatingEdges

\* C14: resetSimulation() leaves no pending timer and all six sets empty, whatever the
\* state it is called in; the simulation is then not active and no timer callback runs
\* before the next handler call.
C14_ResetClearsEverything ==
    [][ /\ lastOp'.op = "resetSimulation" => (Sim' = EmptySim /\ ~isSimulationActive')
        /\ lastOp.op = "resetSimulation" => lastOp'.op # "timeout" ]_vars

\* resetSimulation was called with two or more timers pending.
C14_Witness ==
    /\ lastOp.op = "resetSimulation"
    /\ lastOp.undone > 1
    /\ Sim = EmptySim

\* C15: during the wave of a trigger(T) carried on by timers and decisions, no edge id
\* is in animatingEdges and in executedEdges at once.
C15_EdgeSetsDisjoint ==
    run.stage # "none" => animatingEdges \cap executedEdges = {}

\* C16: every step that adds an edge to executedEdges finds that edge in animatingEdges:
\* an edge that a decision or a trigger took out of animatingEdges is not marked
\* executed by a later timer unless it was made animating again.
C16_ExecutedOnlyFromAnimating ==
    [][ \A e \in Range(edges) :
            (e.id \in executedEdges' /\ e.id \notin executedEdges)
                => e.id \in animatingEdges ]_vars

\* C17: during the wave of a trigger(T) carried on by timers and decisions, no node id
\* is in two of executed, active and waitingForDecision.
C17_OneStatusPerNode ==
    run.stage # "none"
        => /\ executedNodes \cap activeNodes = {}
           /\ executedNodes \cap waitingForDecision = {}
           /\ activeNodes \cap waitingForDecision = {}

\* C18: when its loop ends getLinkedNodes(start) holds exactly the ids reachable from
\* start over one or more edges, start itself left out even on a cycle or with a
\* self-loop; the edge lists run over every order of every edge set, and the set
\* reached depends on the edge set alone. The one-call form used by the handlers
\* returns the same set.
C18_LinkedNodesIsDownstream ==
    bfsQueue = <<>>
        => /\ bfsLinked = downstream(bfsSource)
           /\ bfsSource \notin bfsLinked
           /\ bfsLinked = getLinkedNodes(bfsSource)

\* The search ended for a start that has a self-loop and lies on a longer cycle.
C18_Witness ==
    /\ bfsQueue = <<>>
    /\ expanded # <<>>
    /\ \E e \in Range(edges) : e.source = bfsSource /\ e.target = bfsSource
    /\ \E e \in Range(edges) : e.source \in bfsLinked /\ e.target = bfsSource
    /\ bfsSource \notin bfsLinked

isDuplicateFree(seq) == \A i, j \in DOMAIN seq : seq[i] = seq[j] => i = j

\* C19: on every edge list, with cycles through the start, self-loops and parallel
\* edges, the loop of getLinkedNodes ends (its queue runs empty and stays so), and no
\* id had its outgoing edges followed more than once.
C19_SearchTerminates ==
    <>[](bfsQueue = <<>> /\ isDuplicateFree(expanded))

\* The search ended after it had met an id a second time in its queue.
C19_Witness ==
    /\ bfsQueue = <<>>
    /\ Len(expanded) > 1
    /\ bfsSource \in {e.target : e \in Range(edges)}
    /\ \E e, f \in Range(edges) : e # f /\ e.source = f.source /\ e.target = f.target
                                       /\ e.source \in Range(expanded)
                                       /\ e.target # e.source

\* C20: getLinkedNodes(start) returns the empty set whenever start is not a node of the
\* graph, also when the edge list still holds edges whose source is start.
C20_AbsentStartGivesEmpty ==
    (bfsQueue = <<>> /\ bfsSource \notin NodeIds) => bfsLinked = {}

\* Edges leaving a node, and the timers executeNode schedules for them.
outgoing(id) == {e \in Range(edges) : e.source = id}

timersOf(es) == SetToBag({Timeout(e) : e \in es})

\* executeNode(n) on a node n that is no Policy: n is marked, every outgoing edge
\* is animated and gets one timer, in this one step.
executesWithTimers(n) ==
    /\ executedNodes' = executedNodes \cup {n}
    /\ activeNodes' = activeNodes \ {n}
    /\ animatingEdges' = animatingEdges \cup {e.id : e \in outgoing(n)}
    /\ simulationTimeouts' = simulationTimeouts (+) timersOf(outgoing(n))
    /\ UNCHANGED <<executedEdges, waitingForDecision, triggeredOutputNodes>>

firstOfPair(es, i) ==
    \A j \in 1..(i - 1) : ~(es[j].source = es[i].source /\ es[j].target = es[i].target)

survivors(ns, es) ==
    {i \in DOMAIN es : /\ es[i].source \in {n.id : n \in Range(ns)}
                        /\ es[i].target \in {n.id : n \in Range(ns)}
                        /\ firstOfPair(es, i)}

\* What a cleanup pass has to make of a handle.
knownHandle(h) == h \in {<<v>> : v \in VALID_HANDLES}

normalised(h) ==
    IF h = <<>> \/ h = <<"">> \/ knownHandle(h) THEN h
    ELSE IF knownHandle(SubSeq(h, 1, 1)) THEN SubSeq(h, 1, 1)
    ELSE <<>>

\* C28: a cleanup pass returns the nodes as they are and the edges such that both ends
\* of every edge are nodes, no two edges have the same ordered (source, target) pair,
\* the edge kept of a pair is its first occurrence, every handle that is not empty is
\* a known one (an unknown handle became its prefix before '-' when that is known and
\* was cleared otherwise); a second pass changes nothing.
C28_CleanupResult ==
    [][ lastOp'.op = "cleanup"
            => /\ nodes' = nodes
               /\ \A e \in Range(edges') : e.source \in NodeIds /\ e.target \in NodeIds
               /\ \A i, j \in DOMAIN edges' :
                      (edges'[i].source = edges'[j].source /\ edges'[i].target = edges'[j].target)
                          => i = j
               /\ {e.id : e \in Range(edges')} = {edges[i].id : i \in survivors(nodes, edges)}
               /\ \A e \in Range(edges') :
                      /\ e.sourceHandle \in {<<>>, <<"">>} \/ knownHandle(e.sourceHandle)
                      /\ e.targetHandle \in {<<>>, <<"">>} \/ knownHandle(e.targetHandle)
                      /\ \E i \in DOMAIN edges :
                             /\ edges[i].id = e.id
                             /\ e.sourceHandle = normalised(edges[i].sourceHandle)
                             /\ e.targetHandle = normalised(edges[i].targetHandle)
               /\ cleanupWorkflow(nodes', edges') = [nodes |-> nodes', edges |-> edges']
               /\ lastOp'.undone = 2 => edges' = edges ]_vars

\* A pass dropped the second edge of a (source, target) pair, both ends being nodes,
\* and cut the handles of the first to their known prefixes.
C28_Witness ==
    /\ lastOp.op = "cleanup"
    /\ lastOp.undone = 1
    /\ lastOp.out = "dropped"
    /\ Len(nodes) = 2
    /\ Len(edges) = 1
    /\ edges[1].id = EdgeNames[1]
    /\ edges[1].source # edges[1].target
    /\ edges[1].sourceHandle = <<"top">>
    /\ edges[1].targetHandle = <<"bottom">>

\* The last step adopted a new graph (import of a document) or cleared the graph.
isReloaded == lastOp.op = "clear" \/ (lastOp.op = "import" /\ lastOp.out = "document")

\* C22: after a new graph is adopted by import, or the graph is cleared, the six
\* simulation sets are empty and no timer of the previous graph is pending.
C22_ReloadClearsSimulation ==
    isReloaded => Sim = EmptySim

\* PolicyOutput nodes whose parentPolicyId names no Policy node of the graph.
orphanOutputs ==
    {n \in Range(nodes) : n.type = "policyOutput" /\ n.parentPolicyId \notin PolicyIds}

\* Edges one end of which is no node of the graph.
danglingEdges == {e \in Range(edges) : e.source \notin NodeIds \/ e.target \notin NodeIds}

\* C29: after a graph is loaded at mount or imported, no PolicyOutput node points to a
\* missing parent Policy and no edge points to a missing node.
C29_LoadedGraphIsConsistent ==
    (lastOp.op \in {"load", "import"} /\ lastOp.out = "document")
        => orphanOutputs = {} /\ danglingEdges = {}

\* C30: an import of a malformed payload (text that is no JSON, or a document without
\* the nodes or the edges key) leaves nodes, edges and the node-id counter unchanged
\* and raises a blocking notification.
C30_MalformedImportIsRejected ==
    [][ (lastOp'.op = "import" /\ lastOp'.out # "document")
            => /\ UNCHANGED <<nodes, edges, nodeId>>
               /\ notifications' # <<>> ]_vars

\* The nodes of a graph that are PolicyOutput nodes bound to output outputId of the
\* Policy parentPolicyId.
boundTo(ns, parentPolicyId, outputId) ==
    {n \in Range(ns) : /\ n.type = "policyOutput"
                        /\ n.parentPolicyId = parentPolicyId
                        /\ n.outputId = outputId}

idsOf(ns) == {n.id : n \in Range(ns)}

outputIdsOf(policyNode) == {o.id : o \in Range(policyNode.outputs)}

incident(es, id) == {e \in Range(es) : e.source = id \/ e.target = id}

\* C23: when a batch of node removals holds a Policy node, after the step the Policy,
\* every PolicyOutput node listed in its outputNodeIds and every edge incident to one
\* of those nodes are absent from the graph.
C23_CascadeDelete ==
    [][ lastOp'.op = "removeNodes"
            => \A p \in {n \in Range(nodes) : n.type = "policy" /\ n.id \notin idsOf(nodes')} :
                   \A o \in Range(p.outputNodeIds) :
                       o \notin idsOf(nodes') /\ incident(edges', o) = {} ]_vars

\* C24: handleOutputsChange(p, newOutputs) on a Policy p: for an output id of the old
\* list that is not in the new one, the PolicyOutput nodes bound to it and the edges
\* incident to them are gone; for an id of the new list that was not in the old one,
\* there is exactly one node that was not in the graph before, it is bound to (p, id);
\* a node bound to an id of both lists is still there under its id, with its binding
\* and with its edges to nodes that were not removed.
C24_OutputsChangeDiffsById ==
    [][ (lastOp'.op = "outputsChange" /\ lastOp'.id \in PolicyIds)
            => LET p == lastOp'.id
                   old == CHOOSE n \in Range(nodes) : n.id = p
                   new == CHOOSE n \in Range(nodes') : n.id = p
                   gone == idsOf(nodes) \ idsOf(nodes')
               IN  /\ \A oid \in outputIdsOf(old) \ outputIdsOf(new) :
                          \A n \in boundTo(nodes, p, oid) :
                              n.id \in gone /\ incident(edges', n.id) = {}
                   /\ \A oid \in outputIdsOf(new) \ outputIdsOf(old) :
                          Cardinality({n \in boundTo(nodes', p, oid) : n.id \notin idsOf(nodes)}) = 1
                   /\ \A oid \in outputIdsOf(new) \cap outputIdsOf(old) :
                          \A n \in boundTo(nodes, p, oid) :
                              /\ \E m \in boundTo(nodes', p, oid) : m.id = n.id
                              /\ \A e \in incident(edges, n.id) :
                                     (e.source \notin gone /\ e.target \notin gone)
                                         => e \in Range(edges')
                   /\ Cardinality(idsOf(nodes') \ idsOf(nodes))
                          = Cardinality(outputIdsOf(new) \ outputIdsOf(old)) ]_vars

\* The outputs of a Policy went from [output_yes, output_no] to [output_yes, output_1]:
\* the node of output_no is gone with the one edge of the canvas, which led to it,
\* the node of output_1 is new, the node of output_yes kept its id.
C24_Witness ==
    /\ lastOp.op = "outputsChange"
    /\ lastOp.undone = 1
    /\ \E p \in Range(nodes) :
           /\ p.id = lastOp.id
           /\ p.type = "policy"
           /\ outputIdsOf(p) = {"output_yes", "output_1"}
           /\ boundTo(nodes, p.id, "output_no") = {}
           /\ \E n \in boundTo(nodes, p.id, "output_1") : n.id = getNodeId(nodeId, 0)
           /\ \E n \in boundTo(nodes, p.id, "output_yes") : n.id = p.outputNodeIds[1]

\* C25: at every moment the outputNodeIds of a Policy are exactly the ids of the
\* PolicyOutput nodes in the graph that have it as parent, and after an outputs change
\* the label of each of these nodes is the label of its entry in the new list.
C25_OutputNodeIdsAreExact ==
    \A p \in {n \in Range(nodes) : n.type = "policy"} :
        /\ Range(p.outputNodeIds)
               = {n.id : n \in {x \in Range(nodes) : x.type = "policyOutput"
                                                        /\ x.parentPolicyId = p.id}}
        /\ (lastOp.op = "outputsChange" /\ lastOp.id = p.id)
               => \A o \in Range(p.outputs) :
                      \A n \in boundTo(nodes, p.id, o.id) : n.label = o.label

\* C26: every PolicyOutput node names as parent a Policy node of the graph, its
\* outputId is the id of one of that Policy's outputs, and no output of a Policy has
\* two PolicyOutput nodes bound to it.
C26_OutputNodesAreBound ==
    /\ \A n \in {x \in Range(nodes) : x.type = "policyOutput"} :
           \E p \in Range(nodes) : /\ p.type = "policy"
                                    /\ p.id = n.parentPolicyId
                                    /\ n.outputId \in outputIdsOf(p)
    /\ \A p \in {x \in Range(nodes) : x.type = "policy"} :
           \A o \in Range(p.outputs) : Cardinality(boundTo(nodes, p.id, o.id)) <= 1

\* C27: one call of handleOutputsChange is one step: in the state it leaves no edge is
\* incident to a node the call removed; a call on an id that is missing or is no
\* Policy changes neither the nodes, nor the edges, nor the counter.
C27_OutputsChangeIsAtomic ==
    [][ lastOp'.op = "outputsChange"
            => /\ \A id \in idsOf(nodes) \ idsOf(nodes') : incident(edges', id) = {}
               /\ lastOp'.id \notin PolicyIds => UNCHANGED <<nodes, edges, nodeId, clipboard>> ]_vars

\* A call removed a PolicyOutput node together with the edge that led to it.
C27_Witness ==
    /\ lastOp.op = "outputsChange"
    /\ lastOp.undone > 0
    /\ lastOp.id \in PolicyIds
    /\ edges = <<>>

\* data.isActive of a node, as the canvas hands it to the node components
isActive(id) == id \in activeNodes

\* C39: no handler and no timer callback adds an id to activeNodes: the set is empty in
\* every reachable state and no node is shown with the button of manual execution.
C39_ActiveNeverPopulated ==
    activeNodes = {} /\ \A n \in Range(nodes) : ~isActive(n.id)

\* A timer callback ran on a simulation with executed nodes, executed edges and a
\* Policy waiting for its decision.
C39_Witness ==
    /\ lastOp.op = "timeout"
    /\ executedNodes # {}
    /\ executedEdges # {}
    /\ waitingForDecision # {}
    /\ activeNodes = {}

\* The Sidebar renders its reset button when isSimulationActive is true.
resetOffered == isSimulationActive

\* C37: in every reachable state in which isSimulationActive is false, executedEdges
\* and triggeredOutputNodes are empty and no timer is pending: the reset button is
\* offered whenever any simulation state exists.
C37_ResetOfferedWheneverStateExists ==
    ~resetOffered
        => /\ executedEdges = {}
           /\ triggeredOutputNodes = {}
           /\ simulationTimeouts = EmptyBag

\* A run that had executed edges, a triggered output node and a pending timer was
\* reset: the predicate is false and nothing is left.
C37_Witness ==
    /\ lastOp.op = "resetSimulation"
    /\ lastOp.undone > 0
    /\ OutputNodeIds # {}
    /\ ~resetOffered
    /\ Sim = EmptySim

\* The pending timers whose callback completes the edge eid.
pendingFor(eid) == {t \in BagToSet(simulationTimeouts) : t.edge.id = eid}

\* C33: during the wave of a trigger(T) carried on by timers, decisions and further
\* trigger(T) calls, every edge in animatingEdges has a pending timer that will
\* complete it, also after a trigger cancelled the timers of a branch that lies behind
\* an already decided Policy.
C33_NoOrphanedAnimatingEdges ==
    run.stage # "none" => \A eid \in animatingEdges : pendingFor(eid) # {}

\* C34: in every state of a wave at most one timer is pending for any edge, also when
\* the source of the edge is reached by two paths of the wave or again through a cycle.
C34_OneTimerPerEdge ==
    LET pendingCount(eid) ==
            BagCardinality([t \in pendingFor(eid) |-> CopiesIn(t, simulationTimeouts)])
    IN  \A e \in Range(edges) : pendingCount(e.id) <= 1

\* Ids handleTrigger may be called with on one of the wave graphs.
WaveIds ==
    UNION {{n.id : n \in Range(g.nodes)}
               \cup {e.source : e \in Range(g.edges)} \cup {e.target : e \in Range(g.edges)} :
               g \in WaveGraphs}

\* A timer callback that ends at id executes it and goes on with its outgoing edges:
\* id is no Trigger (isTargetTrigger) and no Policy (early return of handleExecuteNode).
passes(id) == nodeType(id) \notin {"policy", "trigger"}

\* The ids a wave that executes id is carried to: targets of edges that leave id or a
\* carried id, as long as they are neither Policy nor Trigger.
carried(id) ==
    LET onward(from) ==
            {e.target : e \in {x \in Range(edges) : x.source \in from /\ passes(x.target)}}
        grow[i \in 0..Len(edges)] ==
            IF i = 0 THEN onward({id}) ELSE grow[i - 1] \cup onward(grow[i - 1])
    IN  grow[Len(edges)]

\* Every cycle among the nodes reachable from id holds a Policy or a Trigger.
cyclesAreGuarded(id) ==
    \A n \in getLinkedNodes(id) \cup {id} : ~(passes(n) /\ n \in carried(n))

quiescent ==
    /\ simulationTimeouts = EmptyBag
    /\ animatingEdges = {}
    /\ ~ENABLED NextWave

propagated(T) ==
    LET waveEdges == {e \in Range(edges) : e.source \in {T} \cup carried(T)}
        waveNodes == {T} \cup {e.target : e \in waveEdges}
    IN  /\ \A n \in waveNodes :
               /\ nodeType(n) \in {"step", "policyOutput"} => n \in executedNodes
               /\ nodeType(n) = "policy" => n \in waitingForDecision
        /\ \A e \in waveEdges : e.id \in executedEdges

\* C36: after trigger(T) on a node T that is no Policy, with nothing but the timers
\* running and every pending timer firing in the end, every node reached from T along
\* a path that does not pass through a Policy or a Trigger ends up executed when it is
\* a Step or a PolicyOutput node, waiting for its decision when it is a Policy, and
\* every edge of such a path ends up in executedEdges.
C36_PropagationIsComplete ==
    \A T \in WaveIds :
        []((lastOp.op = "trigger" /\ lastOp.id = T /\ nodeType(T) # "policy")
               => <>[]propagated(T))

\* The wave of RelayGraph is complete: B is executed, the edge to the second Trigger U
\* is executed, U and what lies behind it are not.
C36_Witness ==
    /\ nodes = RelayGraph.nodes
    /\ propagated("T")
    /\ {"T", "A", "B"} \subseteq executedNodes
    /\ {"T-A", "A-U", "A-B"} \subseteq executedEdges
    /\ "U" \notin executedNodes
    /\ "U-C" \notin executedEdges
    /\ simulationTimeouts = EmptyBag

\* C38: whatever the interleaving of simulation and graph edits (load, import, clear),
\* every id in executedNodes, activeNodes, waitingForDecision and triggeredOutputNodes
\* is the id of a node of the graph and every id in executedEdges and animatingEdges
\* is the id of one of its edges.
C38_SimulationRefersToGraph ==
    /\ executedNodes \cup activeNodes \cup waitingForDecision \cup triggeredOutputNodes
           \subseteq NodeIds
    /\ executedEdges \cup animatingEdges \subseteq {e.id : e \in Range(edges)}

\* C32: every step of a drag that moves a Policy node moves each PolicyOutput node
\* listed in its outputNodeIds by the same (dx, dy): the offset of the child from the
\* Policy is the same before and after every drag step and after the end of the drag.
C32_DragCoupling ==
    [][ \A p \in {n \in Range(nodes) : n.type = "policy"} :
            (position'[p.id] # position[p.id] \/ lastOp'.op = "dragStop")
                => \A c \in Range(p.outputNodeIds) \cap NodeIds :
                       minus(position'[c], position'[p.id])
                           = minus(position[c], position[p.id]) ]_vars

\* C31: node ids stay unique. After load or import the counter nodeId is above
\* the number of every adopted node id, and through load, import, clear, add
\* node, paste and outputs changes it stays above the number of every node of
\* the graph, so the id getNodeId allocates next is the id of no node of the
\* graph and no two nodes of the graph have the same id.
C31_NodeIdsStayUnique ==
    /\ \A i, j \in DOMAIN nodes : nodes[i].id = nodes[j].id => i = j
    /\ \A n \in Range(nodes) : parseNodeNumber(n.id) < nodeId
    /\ getNodeId(nodeId, 1) \notin NodeIds

\* A document with a gap in its ids and an id without number was imported, and a
\* node was added: it has the id after the highest one.
C31_Witness ==
    /\ lastOp.op = "addNode"
    /\ {"start", "node_2", "node_3"} \subseteq NodeIds
    /\ nodeId = 4

====
